---- MODULE Spec2Model ----
(***************************************************************************)
(* Model of the Leboncoin "bureaux et commerces" scraper                   *)
(* (leboncoin_scraper.py) and of the housekeeping script (clean.py).       *)
(*                                                                         *)
(* Conventions of the translation                                          *)
(*   - a Python str that the code inspects (attribute values, labels) is a *)
(*     sequence of one-character strings; '' is << >>;                     *)
(*   - an Optional value is a sequence of at most one element: None is     *)
(*     << >>, a present value x is << x >>;                                *)
(*   - a Python object (an ad, a user, a pro profile) is a record; an      *)
(*     attribute the object does not have is a field the record lacks,     *)
(*     so hasattr(o, 'f') is  "f" \in DOMAIN o;                            *)
(*   - a dict is a function whose DOMAIN is the dict's key set;            *)
(*   - a file path is a sequence of name tokens, "/" being the separator.  *)
(***************************************************************************)
EXTENDS Integers, Sequences, FiniteSets, TLC

VARIABLES
    pc,            \* position of main(): "main", "loop", "sleep", "finish",
                   \*   "returned", "raised", "done"; "api" when the methods
                   \*   are called directly; "normalize", "normalized" in
                   \*   the runs of the normalizer alone
    max_pages,     \* args.max_pages, the max_pages argument of the search
    delay,         \* self.delay
    page,          \* local page of search_bureaux_commerces
    all_ads,       \* local all_ads of search_bureaux_commerces (kept here after
                   \*   the call ended, also when the caller cannot reach it)
    scraped_data,  \* self.scraped_data
    calls,         \* page indexes passed to self.client.search, in order
    results,       \* len(result.ads) of each search call that returned, in order
    result_max_pages, \* result.max_pages as line 130 last read it, an Optional;
                   \*   None once the call ended and its local result is gone
    sleeps,        \* for each time.sleep of the run, the number of calls before it
    files,         \* the file system: path -> content
    saves,         \* the outcome of each call of save_to_csv, in order
    stats,         \* what the last call of get_statistics returned, as an Optional
    printed,       \* what main() printed, in order
    log,           \* ERROR records written through logger.error, in order
    now,           \* the wall clock, in seconds
    ad,            \* the RawListing handed to _process_ad (normalizer runs)
    ad_data        \* what _process_ad returned for it, as an Optional

vars == << pc, max_pages, delay, page, all_ads, scraped_data, calls, results,
           result_max_pages, sleeps,
           files, saves, stats, printed, log, now, ad, ad_data >>

(***************************************************************************)
(* Bounds of the model.                                                    *)
(***************************************************************************)
MaxPages == 5
MaxLibPages == 3
MaxTime == 1
MaxAttrs == 2
MaxSaves == 2

None == << >>
Some(x) == << x >>

(***************************************************************************)
(* Strings as character sequences; re.search(r'\d+', s) and int().         *)
(***************************************************************************)
Digits == {"0", "1", "2", "3", "4", "5", "6", "7", "8", "9"}

DigitVal(c) ==
    CASE c = "0" -> 0 [] c = "1" -> 1 [] c = "2" -> 2 [] c = "3" -> 3
      [] c = "4" -> 4 [] c = "5" -> 5 [] c = "6" -> 6 [] c = "7" -> 7
      [] c = "8" -> 8 [] c = "9" -> 9

\* The index of the first digit of s, or 0 when s has none.
FirstDigitAt(s) ==
    IF \E i \in 1..Len(s) : s[i] \in Digits
    THEN CHOOSE i \in 1..Len(s) :
            /\ s[i] \in Digits
            /\ \A j \in 1..(i - 1) : s[j] \notin Digits
    ELSE 0

\* The index of the last digit of the run that starts at i.
RunEnd(s, i) ==
    CHOOSE k \in i..Len(s) :
        /\ \A j \in i..k : s[j] \in Digits
        /\ (k = Len(s) \/ s[k + 1] \notin Digits)

\* re.search(r'\d+', s): None, or the first maximal run of digits.
ReSearchDigits(s) ==
    IF FirstDigitAt(s) = 0
    THEN None
    ELSE Some(SubSeq(s, FirstDigitAt(s), RunEnd(s, FirstDigitAt(s))))

RECURSIVE ParseInt(_)
\* int(d) for a non-empty string of digits d.
ParseInt(d) ==
    IF Len(d) = 0 THEN 0
    ELSE 10 * ParseInt(SubSeq(d, 1, Len(d) - 1)) + DigitVal(d[Len(d)])

(***************************************************************************)
(* _process_ad, lines 158-164: the attributes dict.  Only the attributes   *)
(* with a truthy key and a truthy value enter it; a repeated key keeps the *)
(* last one; the label falls back to the value.                            *)
(***************************************************************************)
AttrKept(attr) == attr.key # "" /\ attr.value # << >>

AttrEntry(attr) ==
    [value |-> attr.value,
     label |-> IF attr.value_label # << >> THEN attr.value_label ELSE attr.value]

LastIndexOf(attrs, k) ==
    CHOOSE i \in 1..Len(attrs) :
        /\ AttrKept(attrs[i]) /\ attrs[i].key = k
        /\ \A j \in (i + 1)..Len(attrs) : ~(AttrKept(attrs[j]) /\ attrs[j].key = k)

BuildAttributes(attrs) ==
    [k \in {attrs[i].key : i \in {j \in 1..Len(attrs) : AttrKept(attrs[j])}} |->
        AttrEntry(attrs[LastIndexOf(attrs, k)])]

(***************************************************************************)
(* The key-fallback extractors, lines 225-270.                             *)
(***************************************************************************)
surface_keys == << "square", "surface", "area" >>
type_keys == << "real_estate_type", "property_type", "type" >>
energy_keys == << "energy_rate", "dpe", "energy_class" >>
ges_keys == << "ges", "greenhouse_gas", "co2" >>
furnished_keys == << "furnished", "meuble", "furnished_type" >>

\* Lines 233-235: the match of one key's value decides whether the loop returns.
SurfaceOfKey(attributes, key) ==
    IF ReSearchDigits(attributes[key].value) # None
    THEN Some(ParseInt(ReSearchDigits(attributes[key].value)[1]))
    ELSE None

RECURSIVE SurfaceScan(_, _, _)
\* A loop that returns at the first key in the dict, digits or not.
SurfaceScanFirstKeyOnly(attributes, keys, i) ==
    IF i > Len(keys) THEN None
    ELSE IF keys[i] \in DOMAIN attributes
         THEN SurfaceOfKey(attributes, keys[i])
         ELSE SurfaceScan(attributes, keys, i + 1)

\* The for loop of _extract_surface from position i of the key list: a key
\* whose value has no digit run does not return, the loop goes on.
SurfaceScan(attributes, keys, i) ==
    IF i > Len(keys) THEN None
    ELSE IF keys[i] \in DOMAIN attributes /\ SurfaceOfKey(attributes, keys[i]) # None
         THEN SurfaceOfKey(attributes, keys[i])
         ELSE SurfaceScan(attributes, keys, i + 1)

_extract_surface(attributes) == SurfaceScan(attributes, surface_keys, 1)

RECURSIVE LabelScan(_, _, _)
\* The for loop shared by the four label extractors: the first key of the
\* list that is in the dict returns its label; '' when none is.
LabelScan(attributes, keys, i) ==
    IF i > Len(keys) THEN << >>
    ELSE IF keys[i] \in DOMAIN attributes
         THEN attributes[keys[i]].label
         ELSE LabelScan(attributes, keys, i + 1)

_extract_real_estate_type(attributes) == LabelScan(attributes, type_keys, 1)
_extract_energy_class(attributes) == LabelScan(attributes, energy_keys, 1)
_extract_ges(attributes) == LabelScan(attributes, ges_keys, 1)
_extract_furnished_status(attributes) == LabelScan(attributes, furnished_keys, 1)

(***************************************************************************)
(* _process_ad, lines 147-223.                                             *)
(***************************************************************************)
\* The attributes of the ad object that the try block reads unguarded.
AdReads ==
    {"attributes", "id", "subject", "body", "price", "url",
     "first_publication_date", "expiration_date", "category_name", "status",
     "location", "user", "has_phone", "images"}

LocationReads == {"city", "zipcode", "department_name", "region_name", "lat", "lng"}

\* The try block raises AttributeError when it reads an attribute that the
\* object lacks (lines 159-193); ad.id is read again by the handler, line 223.
ProcessRaises(a) ==
    \/ ~(AdReads \subseteq DOMAIN a)
    \/ (a.location # None /\ ~(LocationReads \subseteq DOMAIN a.location[1]))
    \/ (a.user # None /\ "name" \notin DOMAIN a.user[1])

\* ad.body[:500]
DescriptionLimit == 500

Truncate(s, n) == SubSeq(s, 1, IF Len(s) < n THEN Len(s) ELSE n)

\* Line 209: ad.user and hasattr(ad.user, 'pro') and ad.user.pro
HasProProfile(a) ==
    /\ a.user # None
    /\ "pro" \in DOMAIN a.user[1]
    /\ a.user[1].pro # None

\* Lines 211-217: the update dict built from the pro profile.
ProFields(pro) ==
    [pro_store_name |-> IF "online_store_name" \in DOMAIN pro THEN pro.online_store_name ELSE "",
     pro_siret |-> IF "siret" \in DOMAIN pro THEN pro.siret ELSE "",
     pro_siren |-> IF "siren" \in DOMAIN pro THEN pro.siren ELSE "",
     pro_activity_sector |-> IF "activity_sector" \in DOMAIN pro THEN pro.activity_sector ELSE "",
     pro_website |-> IF "website_url" \in DOMAIN pro THEN pro.website_url ELSE ""]

\* Lines 166-207: the dict literal.  raw_attributes stands for the JSON text
\* of the attributes dict and is kept as the dict itself.
BaseFields(a, t) ==
    [id |-> a.id,
     title |-> a.subject,
     description |-> IF a.body # << >> THEN Truncate(a.body, DescriptionLimit) ELSE << >>,
     price |-> a.price,
     url |-> a.url,
     publication_date |-> a.first_publication_date,
     expiration_date |-> a.expiration_date,
     category |-> a.category_name,
     status |-> a.status,
     favorites |-> IF "favorites" \in DOMAIN a THEN a.favorites ELSE 0,
     city |-> IF a.location # None THEN a.location[1].city ELSE "",
     zipcode |-> IF a.location # None THEN a.location[1].zipcode ELSE "",
     department |-> IF a.location # None THEN a.location[1].department_name ELSE "",
     region |-> IF a.location # None THEN a.location[1].region_name ELSE "",
     latitude |-> IF a.location # None THEN Some(a.location[1].lat) ELSE None,
     longitude |-> IF a.location # None THEN Some(a.location[1].lng) ELSE None,
     seller_type |-> IF a.user # None
                        /\ (IF "is_pro" \in DOMAIN a.user[1] THEN a.user[1].is_pro ELSE FALSE)
                     THEN "pro" ELSE "particulier",
     seller_name |-> IF a.user # None THEN a.user[1].name ELSE "",
     has_phone |-> a.has_phone,
     images_count |-> IF a.images # << >> THEN Len(a.images) ELSE 0,
     first_image_url |-> IF a.images # << >> THEN a.images[1] ELSE "",
     surface |-> _extract_surface(BuildAttributes(a.attributes)),
     real_estate_type |-> _extract_real_estate_type(BuildAttributes(a.attributes)),
     energy_class |-> _extract_energy_class(BuildAttributes(a.attributes)),
     ges |-> _extract_ges(BuildAttributes(a.attributes)),
     furnished |-> _extract_furnished_status(BuildAttributes(a.attributes)),
     raw_attributes |-> BuildAttributes(a.attributes),
     scraped_at |-> t]

\* Line 223: the minimal record of a listing whose extraction failed.
ErrorRecord(a) == [id |-> a.id, error |-> "AttributeError"]

\* _process_ad(ad) run at clock value t.
_process_ad(a, t) ==
    IF ProcessRaises(a)
    THEN ErrorRecord(a)
    ELSE IF HasProProfile(a)
         THEN ProFields(a.user[1].pro[1]) @@ BaseFields(a, t)
         ELSE BaseFields(a, t)

(***************************************************************************)
(* The file system, file names and timestamps.                             *)
(***************************************************************************)
\* datetime.now().strftime("%Y%m%d_%H%M%S"): one token per second of the clock.
Stamps == << "T0", "T1", "T2", "T3", "T4", "T5", "T6", "T7", "T8", "T9" >>

strftime(t) == Stamps[t + 1]

data_dir == << "data" >>

\* filename.startswith(data_dir): a test on the characters, not on the directory.
StartsWithDataDir(filename) == Len(filename) >= 1 /\ filename[1] = data_dir[1]

\* os.path.join(dir, name)
PathJoin(dir, name) == dir \o << "/" >> \o name

\* os.path.splitext(name)
SplitExt(name) == [name |-> SubSeq(name, 1, Len(name) - 1), ext |-> name[Len(name)]]

\* Lines 290-296 of save_to_csv: the path the export is written to.
ExportPath(filename, city, t) ==
    LET named == IF filename # << >>
                 THEN filename
                 ELSE << "leboncoin_bureaux_commerces_",
                         IF city # "" THEN city ELSE "all",
                         "_", strftime(t), ".csv" >>
    IN  IF StartsWithDataDir(named) THEN named ELSE PathJoin(data_dir, named)

DropKey(r, k) == [f \in DOMAIN r \ {k} |-> r[f]]

IsExportable(r) == "error" \notin DOMAIN r

\* Lines 298-308: the rows handed to the DataFrame.
CsvData(data, include_raw_attributes) ==
    LET kept == SelectSeq(data, IsExportable)
    IN  [i \in 1..Len(kept) |->
            IF include_raw_attributes THEN kept[i] ELSE DropKey(kept[i], "raw_attributes")]

\* Lines 310-312: pd.DataFrame(csv_data).to_csv(filename): the header is the
\* union of the rows' keys, and the file at filename is created or replaced.
CsvFile(csv_data) ==
    [origin |-> "save_to_csv",
     columns |-> UNION {DOMAIN csv_data[i] : i \in 1..Len(csv_data)},
     rows |-> csv_data]

\* Line 283: the guard of save_to_csv reads the session, before any filtering.
NothingToSave(data) == data = << >>

\* save_to_csv(filename, city, include_raw_attributes) on session data, file
\* system fs and clock t: whether it raised, the file system after, the path.
save_to_csv(data, filename, city, include_raw_attributes, fs, t) ==
    IF NothingToSave(data)
    THEN [raised |-> TRUE, files |-> fs, filename |-> << >>]
    ELSE [raised |-> FALSE,
          files |-> (ExportPath(filename, city, t)
                        :> CsvFile(CsvData(data, include_raw_attributes))) @@ fs,
          filename |-> ExportPath(filename, city, t)]

(***************************************************************************)
(* get_statistics, lines 317-342.  pd.DataFrame(self.scraped_data) has one *)
(* row per record of the session, error records included, and the union of *)
(* the records' keys as columns; a record without a key has NaN there, and *)
(* so has a record whose price is None.  A mean or a median is a fraction  *)
(* [num, den]; NaN is None.                                                *)
(***************************************************************************)
\* df.columns
Columns(data) == UNION {DOMAIN data[i] : i \in 1..Len(data)}

\* The rows whose cell of column col is not NaN for want of the key.
RowsWith(data, col) ==
    LET has(r) == col \in DOMAIN r
    IN  SelectSeq(data, has)

\* A count of the values that also counts the missing cells, under "NaN".
ValueCountsWithNaN(data, col) ==
    LET rows == RowsWith(data, col)
        counts == [v \in {rows[i][col] : i \in 1..Len(rows)} |->
                      Cardinality({i \in 1..Len(rows) : rows[i][col] = v})]
    IN  IF Len(rows) < Len(data)
        THEN ("NaN" :> (Len(data) - Len(rows))) @@ counts
        ELSE counts

\* df[col].value_counts().to_dict(): the count of each value; NaN is dropped.
ValueCounts(data, col) ==
    LET rows == RowsWith(data, col)
    IN  [v \in {rows[i][col] : i \in 1..Len(rows)} |->
            Cardinality({i \in 1..Len(rows) : rows[i][col] = v})]

\* df[col].nunique()
NUnique(data, col) == Cardinality(DOMAIN ValueCounts(data, col))

\* The cells of df['price'] that are not NaN, in row order.
Prices(data) ==
    LET priced(r) == r.price # None
        rows == SelectSeq(RowsWith(data, "price"), priced)
    IN  [i \in 1..Len(rows) |-> rows[i].price[1]]

RECURSIVE Sum(_)
Sum(q) == IF q = << >> THEN 0 ELSE Head(q) + Sum(Tail(q))

\* Series.mean(), median(), min(), max(): NaN over no value.
Mean(q) == IF q = << >> THEN None ELSE Some([num |-> Sum(q), den |-> Len(q)])

Median(q) ==
    LET lt(a, b) == a < b
        sorted == SortSeq(q, lt)
        n == Len(q)
    IN  IF n = 0 THEN None
        ELSE IF n % 2 = 1
             THEN Some([num |-> sorted[(n + 1) \div 2], den |-> 1])
             ELSE Some([num |-> sorted[n \div 2] + sorted[n \div 2 + 1], den |-> 2])

Smallest(q) ==
    IF q = << >> THEN None
    ELSE Some(CHOOSE x \in {q[i] : i \in 1..Len(q)} : \A i \in 1..Len(q) : x <= q[i])

Largest(q) ==
    IF q = << >> THEN None
    ELSE Some(CHOOSE x \in {q[i] : i \in 1..Len(q)} : \A i \in 1..Len(q) : x >= q[i])

\* .head(10) of line 339.
TopCitiesLimit == 10

\* value_counts().head(n): the n most frequent values (all of them when there
\* are no more than n).
HeadOf(counts, n) ==
    IF Cardinality(DOMAIN counts) <= n THEN counts
    ELSE LET top == CHOOSE K \in SUBSET DOMAIN counts :
                        /\ Cardinality(K) = n
                        /\ \A k \in K, o \in DOMAIN counts \ K : counts[k] >= counts[o]
         IN  [k \in top |-> counts[k]]

EmptyDict == [k \in {} |-> 0]

Zero == Some([num |-> 0, den |-> 1])

\* get_statistics() on session data.
get_statistics(data) ==
    IF data = << >>
    THEN EmptyDict
    ELSE [total_ads |-> Len(data),
          unique_cities |-> IF "city" \in Columns(data) THEN NUnique(data, "city") ELSE 0,
          price_stats |->
              IF "price" \in Columns(data)
              THEN [mean |-> Mean(Prices(data)), median |-> Median(Prices(data)),
                    min |-> Smallest(Prices(data)), max |-> Largest(Prices(data))]
              ELSE [mean |-> Zero, median |-> Zero, min |-> Some(0), max |-> Some(0)],
          seller_types |-> IF "seller_type" \in Columns(data)
                           THEN ValueCounts(data, "seller_type") ELSE EmptyDict,
          top_cities |-> IF "city" \in Columns(data)
                         THEN HeadOf(ValueCounts(data, "city"), TopCitiesLimit)
                         ELSE EmptyDict]

(***************************************************************************)
(* clean.py: move_csv_files_to_exports and organize_log_files.             *)
(***************************************************************************)
\* glob.glob("*.csv") / glob.glob("*.log") in the root directory.
RootFiles(fs, ext) ==
    {p \in DOMAIN fs : p[Len(p)] = ext /\ \A i \in 1..Len(p) : p[i] # "/"}

\* clean.py lines 34-41 and 70-77: the destination of one move.
MoveDestination(fs, f, dir, t) ==
    IF PathJoin(dir, f) \in DOMAIN fs
    THEN PathJoin(dir, SplitExt(f).name \o << "_moved_", strftime(t), SplitExt(f).ext >>)
    ELSE PathJoin(dir, f)

\* shutil.move(f, destination): the source name goes, the destination holds
\* the source's content, replacing a file that was there.
MoveFile(fs, f, dir, t) ==
    (MoveDestination(fs, f, dir, t) :> fs[f]) @@ [p \in DOMAIN fs \ {f} |-> fs[p]]

RECURSIVE MoveAll(_, _, _, _)
\* The for loops of lines 31-50 and 68-84 over the globbed names in order.
MoveAll(fs, order, dir, t) ==
    IF order = << >> THEN fs
    ELSE MoveAll(MoveFile(fs, Head(order), dir, t), Tail(order), dir, t)

\* The orders in which glob may list the names of S.
Orders(S) ==
    {o \in [1..Cardinality(S) -> S] : \A i, j \in 1..Cardinality(S) : o[i] = o[j] => i = j}

(***************************************************************************)
(* The listings the Marketplace Client returns in collection runs.         *)
(***************************************************************************)
FullAd(id) ==
    [id |-> id, subject |-> "Bureau", body |-> << "b", "o" >>, price |-> Some(1000),
     url |-> "url", first_publication_date |-> "d1", expiration_date |-> "d2",
     category_name |-> "Bureaux & Commerces", status |-> "active",
     location |-> Some([city |-> "Paris", zipcode |-> "75001",
                        department_name |-> "Paris", region_name |-> "IDF",
                        lat |-> 48, lng |-> 2]),
     user |-> Some([name |-> "agence", is_pro |-> TRUE,
                    pro |-> Some([online_store_name |-> "store", siret |-> "s1",
                                  siren |-> "s2", activity_sector |-> "immo",
                                  website_url |-> "w"])]),
     has_phone |-> TRUE, images |-> << "img1" >>,
     attributes |-> << [key |-> "square", value |-> << "8", "5" >>, value_label |-> << >>] >>]

Kinds == {"pro", "private", "broken"}

\* A listing of each shape: with a pro profile, from a private seller without
\* location nor images, and one the normalizer cannot read.
SampleAd(kind, id) ==
    CASE kind = "pro" -> FullAd(id)
      [] kind = "private" ->
            [FullAd(id) EXCEPT !.user = Some([name |-> "jean", is_pro |-> FALSE]),
                               !.location = None, !.images = << >>, !.price = None]
      [] kind = "broken" -> DropKey(FullAd(id), "attributes")

\* The pages the client returns, as the shapes of their listings in order:
\* the empty page, a page of one listing that cannot be read, and pages of
\* two listings.
PageShapes ==
    {<< >>, << "broken" >>, << "private", "pro" >>, << "broken", "pro" >>}

\* The listing at position i of page p is identified by (p, i).
PageAds(p, shapes) == [i \in 1..Len(shapes) |-> SampleAd(shapes[i], 10 * p + i)]

(***************************************************************************)
(* search_bureaux_commerces, lines 88-145, one action per loop iteration.  *)
(***************************************************************************)
\* The loop condition off by one: one page more than configured.
LoopCondOneMore(p, m) == p <= m + 1

\* Line 96: the loop condition.
LoopCond(p, m) == p <= m

\* Line 130: the library's last-page test.
\* A test that lets the page equal to the library's last page continue.
LastPageReachedStrict(p, lib_max_pages) == p > lib_max_pages

LastPageReached(p, lib_max_pages) == p >= lib_max_pages

\* A loop that leaves out the listings whose extraction failed.
ProcessPageSkipsFailed(ads, t) ==
    LET ok(a) == ~ProcessRaises(a)
    IN  [i \in 1..Len(SelectSeq(ads, ok)) |-> _process_ad(SelectSeq(ads, ok)[i], t)]

\* Lines 126-128: every listing of the page gives one record, in order.
ProcessPage(ads, t) == [i \in 1..Len(ads) |-> _process_ad(ads[i], t)]

\* Line 222: one ERROR record per listing whose extraction failed.
AdErrors(ads) ==
    [i \in 1..Len(SelectSeq(ads, ProcessRaises)) |-> "ad_error"]

\* Lines 88-89, called from main line 395.
StartSearch ==
    /\ pc = "main"
    /\ all_ads' = << >>
    /\ page' = 1
    /\ pc' = "loop"
    /\ UNCHANGED << max_pages, delay, scraped_data, calls, results, result_max_pages,
                    sleeps, files, saves, stats, printed, log, now, ad, ad_data >>

\* Line 96 false: the loop ends because the page count is exhausted.
LoopExit ==
    /\ pc = "loop"
    /\ ~LoopCond(page, max_pages)
    /\ pc' = "finish"
    /\ UNCHANGED << max_pages, delay, page, all_ads, scraped_data, calls, results,
                    result_max_pages, sleeps, files, saves, stats, printed, log, now,
                    ad, ad_data >>

\* An empty page that does not break: the loop goes on to the next page.
FetchEmptyContinue ==
    /\ pc = "loop"
    /\ LoopCond(page, max_pages)
    /\ calls' = Append(calls, page)
    /\ results' = Append(results, 0)
    /\ page' = page + 1
    /\ pc' = "loop"
    /\ UNCHANGED << max_pages, delay, all_ads, scraped_data, result_max_pages, sleeps,
                    files, saves, stats, printed, log, now, ad, ad_data >>

\* Lines 118-122: the search returns no listing: break.
FetchEmpty ==
    /\ pc = "loop"
    /\ LoopCond(page, max_pages)
    /\ calls' = Append(calls, page)
    /\ results' = Append(results, 0)
    /\ pc' = "finish"
    /\ UNCHANGED << max_pages, delay, page, all_ads, scraped_data, result_max_pages,
                    sleeps, files, saves, stats, printed, log, now, ad, ad_data >>

\* Lines 118-134: the search returns listings: they are normalized, then the
\* last-page test breaks or the page index advances (and line 136 decides
\* whether the run sleeps).
FetchPage ==
    /\ pc = "loop"
    /\ LoopCond(page, max_pages)
    /\ \E shapes \in PageShapes \ {<< >>}, lib_max_pages \in 1..MaxLibPages :
          /\ calls' = Append(calls, page)
          /\ results' = Append(results, Len(shapes))
          /\ all_ads' = all_ads \o ProcessPage(PageAds(page, shapes), now)
          /\ log' = log \o AdErrors(PageAds(page, shapes))
          /\ result_max_pages' = Some(lib_max_pages)
          /\ IF LastPageReached(page, lib_max_pages)
             THEN /\ pc' = "finish"
                  /\ page' = page
             ELSE /\ page' = page + 1
                  /\ pc' = IF delay > 0 THEN "sleep" ELSE "loop"
    /\ UNCHANGED << max_pages, delay, scraped_data, sleeps, files, saves, stats,
                    printed, now, ad, ad_data >>

\* Line 137: time.sleep(self.delay).
Sleep ==
    /\ pc = "sleep"
    /\ sleeps' = Append(sleeps, Len(calls))
    /\ pc' = "loop"
    /\ UNCHANGED << max_pages, delay, page, all_ads, scraped_data, calls, results,
                    result_max_pages, files, saves, stats, printed, log, now, ad,
                    ad_data >>

\* A handler that logs and does not re-raise: the run returns normally.
FetchErrorSwallowed ==
    /\ pc = "loop"
    /\ LoopCond(page, max_pages)
    /\ calls' = Append(calls, page)
    /\ results' = results
    /\ log' = Append(log, "scraping_error")
    /\ pc' = "finish"
    /\ UNCHANGED << max_pages, delay, page, all_ads, scraped_data, result_max_pages,
                    sleeps, files, saves, stats, printed, now, ad, ad_data >>

\* Lines 118 and 139-141: the search raises; the handler logs and re-raises.
FetchError ==
    /\ pc = "loop"
    /\ LoopCond(page, max_pages)
    /\ calls' = Append(calls, page)
    /\ results' = results
    /\ log' = Append(log, "scraping_error")
    /\ pc' = "raised"
    /\ result_max_pages' = None
    /\ UNCHANGED << max_pages, delay, page, all_ads, scraped_data, sleeps, files,
                    saves, stats, printed, now, ad, ad_data >>

\* Lines 143-145: the session takes the collected list and the run returns it.
Finish ==
    /\ pc = "finish"
    /\ scraped_data' = all_ads
    /\ pc' = "returned"
    /\ result_max_pages' = None
    /\ UNCHANGED << max_pages, delay, page, all_ads, calls, results, sleeps, files,
                    saves, stats, printed, log, now, ad, ad_data >>

(***************************************************************************)
(* main, lines 394-422.                                                    *)
(***************************************************************************)
\* args.output: absent, a bare name, a name under data/, a name that only
\* begins with the letters of data_dir.
Outputs ==
    {<< >>, << "out", ".csv" >>, << "data", "/", "out", ".csv" >>,
     << "data", "base", ".csv" >>}

\* args.city: absent or given.
Cities == {"", "paris"}

\* Line 404: if ads.
AdsFound(ads) == ads # << >>

\* Lines 404-416 (and 420-422 should save_to_csv raise): the export, and
\* with --stats the statistics.
MainSave ==
    /\ pc = "returned"
    /\ AdsFound(all_ads)
    /\ \E output \in Outputs, city \in Cities, args_stats \in BOOLEAN :
          LET saved == save_to_csv(scraped_data, output, city, FALSE, files, now)
          IN  /\ files' = saved.files
              /\ saves' = Append(saves, [raised |-> saved.raised, filename |-> saved.filename])
              /\ IF saved.raised
                 THEN /\ printed' = Append(printed, << "error" >>)
                      /\ log' = Append(log, "main_error")
                      /\ stats' = stats
                 ELSE /\ printed' =
                            IF args_stats
                            THEN printed \o << << "saved" >> \o saved.filename, << "stats" >> >>
                            ELSE Append(printed, << "saved" >> \o saved.filename)
                      /\ stats' = IF args_stats THEN Some(get_statistics(scraped_data))
                                  ELSE stats
                      /\ log' = log
    /\ pc' = "done"
    /\ UNCHANGED << max_pages, delay, page, all_ads, scraped_data, calls, results,
                    result_max_pages, sleeps, now, ad, ad_data >>

\* Lines 417-418.
MainNoAds ==
    /\ pc = "returned"
    /\ ~AdsFound(all_ads)
    /\ printed' = Append(printed, << "no_ads" >>)
    /\ pc' = "done"
    /\ UNCHANGED << max_pages, delay, page, all_ads, scraped_data, calls, results,
                    result_max_pages, sleeps, files, saves, stats, log, now, ad,
                    ad_data >>

\* A handler that exports what was collected before the error.
MainExceptSavesPartial ==
    /\ pc = "raised"
    /\ LET saved == save_to_csv(all_ads, << >>, "", FALSE, files, now)
       IN  /\ files' = saved.files
           /\ saves' = Append(saves, [raised |-> saved.raised, filename |-> saved.filename])
    /\ log' = Append(log, "main_error")
    /\ printed' = Append(printed, << "error" >>)
    /\ pc' = "done"
    /\ UNCHANGED << max_pages, delay, page, all_ads, scraped_data, calls, results,
                    result_max_pages, sleeps, stats, now, ad, ad_data >>

\* Lines 420-422: the error of the search reaches main's handler.
MainExcept ==
    /\ pc = "raised"
    /\ log' = Append(log, "main_error")
    /\ printed' = Append(printed, << "error" >>)
    /\ pc' = "done"
    /\ UNCHANGED << max_pages, delay, page, all_ads, scraped_data, calls, results,
                    result_max_pages, sleeps, files, saves, stats, now, ad, ad_data >>

(***************************************************************************)
(* The clock.                                                              *)
(***************************************************************************)
\* The points at which a change of the clock can be told from a change at
\* another point: before a search call (line 206 reads the clock for each
\* record of the page), before the export (line 291) and between the calls
\* made on the scraper object or the runs of the script.
ClockObserved == pc \in {"loop", "returned", "api"}

\* A second of wall-clock time passes.
Tick ==
    /\ ClockObserved
    /\ now < MaxTime
    /\ now' = now + 1
    /\ UNCHANGED << pc, max_pages, delay, page, all_ads, scraped_data, calls, results,
                    result_max_pages, sleeps, files, saves, stats, printed, log, ad,
                    ad_data >>

(***************************************************************************)
(* The CLI run.                                                            *)
(***************************************************************************)
OldFile(tag) == [origin |-> tag, columns |-> {}, rows |-> << >>]

\* Files left by earlier runs of the scraper and of the script, the last run
\* of the script being one of the current second.
InitialFiles ==
    (<< "data", "/", "out", ".csv" >> :> OldFile("old_export"))
    @@ (<< "a", ".csv" >> :> OldFile("root_a"))
    @@ (<< "exports", "/", "a", ".csv" >> :> OldFile("exports_a"))
    @@ (<< "exports", "/", "a", "_moved_", "T0", ".csv" >> :> OldFile("exports_a_moved"))
    @@ (<< "run", ".log" >> :> OldFile("root_log"))
    @@ (<< "logs", "/", "run", ".log" >> :> OldFile("logs_log"))

NoAd == [id |-> 0]

\* Lines 53-55 and 392: the scraper is constructed; --max-pages and --delay are
\* any integers the command line gives.
Init ==
    /\ pc = "main"
    /\ max_pages \in -1..MaxPages
    /\ delay \in {0, 1}
    /\ page = 0
    /\ all_ads = << >>
    /\ scraped_data = << >>
    /\ calls = << >>
    /\ results = << >>
    /\ sleeps = << >>
    /\ result_max_pages = None
    /\ files = InitialFiles
    /\ saves = << >>
    /\ stats = None
    /\ printed = << >>
    /\ log = << >>
    /\ now = 0
    /\ ad = NoAd
    /\ ad_data = None

Next ==
    \/ StartSearch
    \/ LoopExit
    \/ FetchEmpty
    \/ FetchPage
    \/ Sleep
    \/ FetchError
    \/ Finish
    \/ MainSave
    \/ MainNoAds
    \/ MainExcept
    \/ Tick

Spec == Init /\ [][Next]_vars

(***************************************************************************)
(* The export and the housekeeping script on one file system: save_to_csv  *)
(* called on the scraper object (any arguments, any session a page of      *)
(* listings leaves), and clean.py run between the calls.                   *)
(***************************************************************************)
\* The sessions a collection run of one page leaves in scraped_data, and one
\* that a run of two pages leaves.
Sessions ==
    {ProcessPage(PageAds(1, shapes), 0) : shapes \in PageShapes}
        \cup {ProcessPage(PageAds(1, << "private", "pro" >>)
                            \o PageAds(2, << "broken", "pro" >>), 0)}

\* scraper.save_to_csv(filename, city, include_raw_attributes)
SaveCall ==
    /\ pc = "api"
    /\ Len(saves) < MaxSaves
    /\ \E output \in Outputs, city \in Cities, include_raw_attributes \in BOOLEAN :
          LET saved == save_to_csv(scraped_data, output, city,
                                   include_raw_attributes, files, now)
          IN  /\ files' = saved.files
              /\ saves' = Append(saves, [raised |-> saved.raised,
                                         filename |-> saved.filename])
    /\ UNCHANGED << pc, max_pages, delay, page, all_ads, scraped_data, calls, results,
                    result_max_pages, sleeps, stats, printed, log, now, ad, ad_data >>

\* scraper.get_statistics()
StatsCall ==
    /\ pc = "api"
    /\ stats' = Some(get_statistics(scraped_data))
    /\ UNCHANGED << pc, max_pages, delay, page, all_ads, scraped_data, calls, results,
                    result_max_pages, sleeps, files, saves, printed, log, now, ad,
                    ad_data >>

\* clean.py lines 13-52.
move_csv_files_to_exports ==
    /\ pc = "api"
    /\ RootFiles(files, ".csv") # {}
    /\ \E order \in Orders(RootFiles(files, ".csv")) :
          files' = MoveAll(files, order, << "exports" >>, now)
    /\ UNCHANGED << pc, max_pages, delay, page, all_ads, scraped_data, calls, results,
                    result_max_pages, sleeps, saves, stats, printed, log, now, ad,
                    ad_data >>

\* clean.py lines 55-89.
organize_log_files ==
    /\ pc = "api"
    /\ RootFiles(files, ".log") # {}
    /\ \E order \in Orders(RootFiles(files, ".log")) :
          files' = MoveAll(files, order, << "logs" >>, now)
    /\ UNCHANGED << pc, max_pages, delay, page, all_ads, scraped_data, calls, results,
                    result_max_pages, sleeps, saves, stats, printed, log, now, ad,
                    ad_data >>

InitFiles ==
    /\ pc = "api"
    /\ max_pages = 0
    /\ delay = 0
    /\ page = 0
    /\ all_ads = << >>
    /\ scraped_data \in Sessions
    /\ calls = << >>
    /\ results = << >>
    /\ sleeps = << >>
    /\ result_max_pages = None
    /\ files = InitialFiles
    /\ saves = << >>
    /\ stats = None
    /\ printed = << >>
    /\ log = << >>
    /\ now = 0
    /\ ad = NoAd
    /\ ad_data = None

NextFiles ==
    \/ SaveCall
    \/ StatsCall
    \/ move_csv_files_to_exports
    \/ organize_log_files
    \/ Tick

SpecFiles == InitFiles /\ [][NextFiles]_vars

(***************************************************************************)
(* The normalizer alone: _process_ad applied to one listing.               *)
(***************************************************************************)
KeyLists == {surface_keys, type_keys, energy_keys, ges_keys, furnished_keys}

\* Attribute values: empty, without digit, with two digit runs, one digit.
SurfaceValues == {<< >>, << "n", "o" >>, << "a", "1", "2", "b", "3" >>, << "7" >>}

LabelValues == {<< >>, << "7" >>}

Labels == {<< >>, << "L" >>, << "M" >>}

\* The attribute triples that matter to one key list; "" is a falsy key.
AttrsFor(keys) ==
    IF keys = surface_keys
    THEN [key : {keys[i] : i \in 1..Len(keys)} \cup {""},
          value : SurfaceValues, value_label : {<< >>}]
    ELSE [key : {keys[i] : i \in 1..Len(keys)} \cup {""},
          value : LabelValues, value_label : Labels]

\* Listings that differ in their attribute collection: up to MaxAttrs triples.
AttrVariedAds ==
    {[FullAd(1) EXCEPT !.attributes = attrs] :
        attrs \in UNION {[1..n -> AttrsFor(keys)] : n \in 0..MaxAttrs, keys \in KeyLists}}

ProProfiles ==
    {None,
     Some([online_store_name |-> "store", siret |-> "s1", siren |-> "s2",
           activity_sector |-> "immo", website_url |-> "w"]),
     Some([online_store_name |-> "store"])}

Users ==
    {None, Some([name |-> "jean"]), Some([name |-> "jean", is_pro |-> FALSE])}
    \cup {Some([name |-> "agence", is_pro |-> TRUE, pro |-> p]) : p \in ProProfiles}
    \cup {Some([is_pro |-> TRUE])}

Locations ==
    {None,
     Some([city |-> "Paris", zipcode |-> "75001", department_name |-> "Paris",
           region_name |-> "IDF", lat |-> 48, lng |-> 2]),
     Some([city |-> "Paris"])}

\* Listings that differ in their optional parts, and listings that lack an
\* attribute the normalizer reads.
ShapeVariedAds ==
    {[FullAd(2) EXCEPT !.user = u, !.location = l, !.images = im, !.body = b] :
        u \in Users, l \in Locations, im \in {<< >>, << "i1", "i2" >>},
        b \in {<< >>, << "b" >>}}
    \cup {DropKey(FullAd(3), f) : f \in {"attributes", "price", "images"}}
    \cup {[favorites |-> 4] @@ FullAd(4)}

NormInputs == AttrVariedAds \cup ShapeVariedAds

\* ad_data = self._process_ad(ad)
ProcessAd ==
    /\ pc = "normalize"
    /\ ad_data' = Some(_process_ad(ad, now))
    /\ log' = log \o AdErrors(<< ad >>)
    /\ pc' = "normalized"
    /\ UNCHANGED << max_pages, delay, page, all_ads, scraped_data, calls, results,
                    result_max_pages, sleeps, files, saves, stats, printed, now, ad >>

InitNorm ==
    /\ pc = "normalize"
    /\ max_pages = 0
    /\ delay = 0
    /\ page = 0
    /\ all_ads = << >>
    /\ scraped_data = << >>
    /\ calls = << >>
    /\ results = << >>
    /\ sleeps = << >>
    /\ result_max_pages = None
    /\ files = InitialFiles
    /\ saves = << >>
    /\ stats = None
    /\ printed = << >>
    /\ log = << >>
    /\ now \in 0..MaxTime
    /\ ad \in NormInputs
    /\ ad_data = None

NextNorm == ProcessAd

SpecNorm == InitNorm /\ [][NextNorm]_vars

(***************************************************************************)
(* Properties of the collection run (specification Spec).                  *)
(***************************************************************************)
\* A search call raised: it is the one call without a result.
SearchRaised == Len(calls) > Len(results)

RECURSIVE ListingIds(_, _)
\* The identifiers of the listings of pages p, p+1, ... whose sizes are q, in
\* page-then-within-page order.
ListingIds(p, q) ==
    IF q = << >> THEN << >>
    ELSE [i \in 1..Head(q) |-> 10 * p + i] \o ListingIds(p + 1, Tail(q))

CollectedIds == [i \in 1..Len(all_ads) |-> all_ads[i].id]

\* C1: whatever the library answers (listing counts, its reported last page,
\* also one beyond the configured count), a run issues at most max_pages
\* search calls, for the pages 1, 2, ... in order and none above max_pages;
\* with max_pages <= 0 it issues none and collects nothing.
C1_PagesWithinMax ==
    /\ Len(calls) <= (IF max_pages > 0 THEN max_pages ELSE 0)
    /\ \A i \in 1..Len(calls) : calls[i] = i /\ calls[i] <= max_pages
    /\ (max_pages <= 0 => calls = << >> /\ all_ads = << >> /\ scraped_data = << >>)

\* The run used all its max_pages = 2 pages although the library's last page
\* lay beyond them (the page index advanced past max_pages).
C1_Witness ==
    /\ max_pages = 2 /\ calls = << 1, 2 >> /\ page = 3 /\ pc = "returned"
    /\ Len(scraped_data) = 3

\* C2: when page k is the first to return no listing, the collected sequence
\* is exactly the listings of pages 1..k-1 in page-then-within-page order,
\* page k is the last page requested, and the run has left the loop.
C2_EmptyPageStops ==
    \A k \in 1..Len(results) :
        results[k] = 0 =>
            /\ k = Len(results) /\ Len(calls) = k /\ calls[k] = k
            /\ \A j \in 1..(k - 1) : results[j] > 0
            /\ CollectedIds = ListingIds(1, SubSeq(results, 1, k - 1))
            /\ pc \in {"finish", "returned", "done"}
            /\ (pc # "finish" => scraped_data = all_ads)

\* The scenario of two pages of two listings, an empty third page, max-pages 5.
C2_Witness ==
    /\ max_pages = 5 /\ results = << 2, 2, 0 >> /\ calls = << 1, 2, 3 >>
    /\ CollectedIds = << 11, 12, 21, 22 >> /\ pc = "done"

\* The first call returns no listing: nothing collected, no further call.
C2_WitnessFirstEmpty ==
    results = << 0 >> /\ calls = << 1 >> /\ all_ads = << >> /\ pc = "done"

\* C3: once a search call raised, it stays the last call of the run (no
\* retry, no further page), the error has left search_bureaux_commerces, and
\* main ends by logging and printing the error, reporting no output file.
C3_ErrorAborts ==
    SearchRaised =>
        /\ Len(calls) = Len(results) + 1
        /\ \A i \in 1..Len(calls) : calls[i] = i
        /\ pc \in {"raised", "done"}
        /\ log # << >> /\ "scraping_error" \in {log[i] : i \in 1..Len(log)}
        /\ (pc = "done" =>
              /\ printed = << << "error" >> >>
              /\ log[Len(log)] = "main_error")

\* The search of page 2 raised and main has reported the failure.
C3_Witness ==
    /\ calls = << 1, 2 >> /\ Len(results) = 1 /\ pc = "done"
    /\ printed = << << "error" >> >>

\* C4 (as claimed): after a search call failed, the records normalized from
\* the pages before it are in the session accumulator scraped_data.
C4_PartialRetained ==
    (SearchRaised /\ pc \in {"raised", "done"}) => scraped_data = all_ads

\* C5: in a run in which a page fetch failed, save_to_csv is never called and
\* the file system is as it was, and main prints the error; save_to_csv is
\* called only after a run that left the loop by a stop condition.
C5_NoPartialExport ==
    /\ (SearchRaised =>
          /\ saves = << >>
          /\ files = InitialFiles
          /\ (pc = "done" => printed = << << "error" >> >>))
    /\ (files # InitialFiles \/ saves # << >> =>
          /\ ~SearchRaised
          /\ pc = "done"
          /\ Len(saves) = 1
          /\ scraped_data = all_ads)

\* A fetch failed after two pages of listings were collected; main is done.
C5_Witness ==
    /\ SearchRaised /\ Len(results) = 2 /\ Len(all_ads) >= 2 /\ pc = "done"
    /\ files = InitialFiles

\* C6 (as claimed): save_to_csv raises whenever no record is left to export
\* (an empty session, or a session of extraction-error records only), and
\* every file it writes holds at least one row.
C6_NoEmptyExport ==
    /\ \A i \in 1..Len(saves) :
          CsvData(scraped_data, FALSE) = << >> => saves[i].raised
    /\ \A f \in DOMAIN files :
          files[f].origin = "save_to_csv" => Len(files[f].rows) >= 1

\* C7: every listing of every page that returned listings gives exactly one
\* record, in order: the collected identifiers are those of all the listings
\* of the pages processed; a record is either a normalized one or the minimal
\* one of a failed extraction (identifier and error marker), and a failed
\* extraction never makes the search raise.
C7_OneRecordPerListing ==
    /\ Len(all_ads) = Sum(results)
    /\ CollectedIds = ListingIds(1, results)
    /\ \A i \in 1..Len(all_ads) :
          \/ DOMAIN all_ads[i] = {"id", "error"}
          \/ ("error" \notin DOMAIN all_ads[i] /\ "scraped_at" \in DOMAIN all_ads[i])
    /\ (pc = "raised" => SearchRaised)

\* The first listing of page 1 failed; the second one and a listing of
\* page 2 were collected after it, and the run returned.
C7_Witness ==
    /\ Len(all_ads) >= 3
    /\ DOMAIN all_ads[1] = {"id", "error"} /\ all_ads[1].id = 11
    /\ "error" \notin DOMAIN all_ads[2] /\ all_ads[2].id = 12
    /\ "error" \notin DOMAIN all_ads[3] /\ all_ads[3].id = 21
    /\ pc = "returned" /\ scraped_data = all_ads

(***************************************************************************)
(* Properties of the export and the housekeeping (specification SpecFiles).*)
(***************************************************************************)
\* A file of one of the destination directories data/, exports/, logs/.
IsDestination(f) ==
    Len(f) >= 2 /\ f[2] = "/" /\ f[1] \in {"data", "exports", "logs"}

\* C8 (as claimed): no export operation (save_to_csv, the two moves of the
\* housekeeping script) removes or changes a file that already exists in a
\* destination directory.
C8_NeverOverwrites ==
    [][\A f \in DOMAIN files :
          IsDestination(f) => f \in DOMAIN files' /\ files'[f] = files[f]]_vars

(***************************************************************************)
(* Properties of the normalizer (specification SpecNorm).                  *)
(***************************************************************************)
\* The keys the code writes into a record: lines 166-207 and 211-217.
SchemaKeys ==
    {"id", "title", "description", "price", "url", "publication_date",
     "expiration_date", "category", "status", "favorites", "city", "zipcode",
     "department", "region", "latitude", "longitude", "seller_type",
     "seller_name", "has_phone", "images_count", "first_image_url", "surface",
     "real_estate_type", "energy_class", "ges", "furnished", "raw_attributes",
     "scraped_at", "pro_store_name", "pro_siret", "pro_siren",
     "pro_activity_sector", "pro_website"}

Normalized == pc = "normalized" /\ IsExportable(ad_data[1])

\* C9 (as claimed): every record of a successfully normalized listing has
\* the complete set of schema keys, whatever optional parts the listing has.
C9_SameKeys == Normalized => DOMAIN ad_data[1] = SchemaKeys

\* The attribute of the listing that decides key k: the last one with that
\* key and a non-empty value (the one the attributes dict keeps).
HasKey(k) ==
    \E i \in 1..Len(ad.attributes) : ad.attributes[i].key = k /\ ad.attributes[i].value # << >>

AttrOf(k) ==
    ad.attributes[CHOOSE i \in 1..Len(ad.attributes) :
        /\ ad.attributes[i].key = k /\ ad.attributes[i].value # << >>
        /\ \A j \in (i + 1)..Len(ad.attributes) :
              ~(ad.attributes[j].key = k /\ ad.attributes[j].value # << >>)]

LabelOf(k) ==
    IF AttrOf(k).value_label # << >> THEN AttrOf(k).value_label ELSE AttrOf(k).value

HasDigit(v) == \E i \in 1..Len(v) : v[i] \in Digits

\* The position in the priority list keys of the first key that satisfies P.
FirstKey(keys, P(_)) ==
    IF \E i \in 1..Len(keys) : P(keys[i])
    THEN CHOOSE i \in 1..Len(keys) : P(keys[i]) /\ \A j \in 1..(i - 1) : ~P(keys[j])
    ELSE 0

\* The label field of a priority list: the label of its first present key.
ClaimedLabel(keys) ==
    IF FirstKey(keys, HasKey) = 0 THEN << >> ELSE LabelOf(keys[FirstKey(keys, HasKey)])

LabelsAsClaimed ==
    /\ ad_data[1].real_estate_type =
          ClaimedLabel(<< "real_estate_type", "property_type", "type" >>)
    /\ ad_data[1].energy_class = ClaimedLabel(<< "energy_rate", "dpe", "energy_class" >>)
    /\ ad_data[1].ges = ClaimedLabel(<< "ges", "greenhouse_gas", "co2" >>)
    /\ ad_data[1].furnished = ClaimedLabel(<< "furnished", "meuble", "furnished_type" >>)

ClaimedSurfaceKeys == << "square", "surface", "area" >>

\* C10 (as claimed): each field comes from the first key of its priority
\* list that is present; the surface is the integer of the first digit run
\* of that key's value, and absent when no key is present or that value has
\* no digit.
C10_FirstPresentKey ==
    Normalized =>
        /\ LabelsAsClaimed
        /\ ad_data[1].surface =
              IF FirstKey(ClaimedSurfaceKeys, HasKey) = 0 THEN None
              ELSE LET v == AttrOf(ClaimedSurfaceKeys[FirstKey(ClaimedSurfaceKeys, HasKey)]).value
                   IN  IF HasDigit(v) THEN Some(ParseInt(ReSearchDigits(v)[1])) ELSE None

HasKeyWithDigit(k) == HasKey(k) /\ HasDigit(AttrOf(k).value)

\* C10 (amended): the label fields come from the first key of their priority
\* list that is present with a non-empty value; the surface is the integer
\* of the first digit run of the value of the first key, in priority order,
\* that is present with a value holding a digit, and absent when there is none.
C10_FirstKeyWithDigits ==
    Normalized =>
        /\ LabelsAsClaimed
        /\ ad_data[1].surface =
              IF FirstKey(ClaimedSurfaceKeys, HasKeyWithDigit) = 0 THEN None
              ELSE LET v == AttrOf(ClaimedSurfaceKeys[
                                FirstKey(ClaimedSurfaceKeys, HasKeyWithDigit)]).value
                   IN  Some(ParseInt(ReSearchDigits(v)[1]))

\* square and area are both present with digits, area first in the
\* collection: the surface is the first digit run of square's value.
C10_Witness ==
    /\ Normalized
    /\ ad.attributes = << [key |-> "area", value |-> << "7" >>, value_label |-> << >>],
                          [key |-> "square", value |-> << "a", "1", "2", "b", "3" >>,
                           value_label |-> << >>] >>
    /\ ad_data[1].surface = << 12 >>

(***************************************************************************)
(* The seller-type distribution of get_statistics.                         *)
(***************************************************************************)
\* The distribution held by a result of get_statistics; the empty dict that
\* an empty session gets holds none, which counts nothing.
SellerTypes(st) == IF "seller_types" \in DOMAIN st THEN st.seller_types ELSE EmptyDict

RECURSIVE SumCounts(_)
SumCounts(d) ==
    IF DOMAIN d = {} THEN 0
    ELSE LET k == CHOOSE x \in DOMAIN d : TRUE
         IN  d[k] + SumCounts([j \in DOMAIN d \ {k} |-> d[j]])

\* C11: whatever the session holds, the seller-type counts that
\* get_statistics returns are filed under "pro" and "particulier" only, each
\* is the number of records save_to_csv exports with that seller type, and
\* together they sum to the number of exported (non-error) records.
C11_SellerTypesCountExported ==
    stats # None =>
        LET d == SellerTypes(stats[1])
            exported == CsvData(scraped_data, FALSE)
        IN  /\ DOMAIN d \subseteq {"pro", "particulier"}
            /\ SumCounts(d) = Len(exported)
            /\ \A k \in DOMAIN d :
                  d[k] = Cardinality({i \in 1..Len(exported) : exported[i].seller_type = k})

\* Statistics of a session that mixes error records with records of both
\* seller types.
C11_Witness ==
    /\ stats # None
    /\ \E i \in 1..Len(scraped_data) : ~IsExportable(scraped_data[i])
    /\ DOMAIN SellerTypes(stats[1]) = {"pro", "particulier"}
    /\ SumCounts(SellerTypes(stats[1])) < Len(scraped_data)

\* Statistics of a session that holds error records only.
C11_WitnessAllErrors ==
    /\ stats # None
    /\ scraped_data # << >>
    /\ CsvData(scraped_data, FALSE) = << >>
    /\ SellerTypes(stats[1]) = EmptyDict

(***************************************************************************)
(* The inter-request delay.                                                *)
(***************************************************************************)
\* The loop of search_bureaux_commerces is over.
LoopOver == pc \in {"finish", "returned", "raised", "done"}

\* C12: once the loop of a run is over, every suspension of the run (each
\* recorded with the number of search calls made before it) was followed by
\* another search call of the same run, so none came after the final page.
C12_DelayOnlyBetweenFetches ==
    LoopOver => \A i \in 1..Len(sleeps) : sleeps[i] < Len(calls)

(***************************************************************************)
(* The stop at the library's last page.                                    *)
(***************************************************************************)
\* The last search call returned a page of listings, and line 130 found its
\* page index at or beyond the library's last-page value.
LastPageHit ==
    /\ calls # << >>
    /\ Len(results) = Len(calls)
    /\ results[Len(results)] > 0
    /\ result_max_pages # None
    /\ calls[Len(calls)] >= result_max_pages[1]

\* C13: when the last page requested, p, returned listings and had reached
\* the library's last-page value, the loop is over and the call is about to
\* return, with p the last page requested, also with p below max_pages, and
\* the collected sequence holds a record for every listing of the pages
\* 1..p, those of p included.
C13_StopsAfterLastPage ==
    LastPageHit =>
        /\ pc = "finish"
        /\ page = calls[Len(calls)]
        /\ CollectedIds = ListingIds(1, results)
        /\ Len(all_ads) = Sum(results)

\* Page 2 of a run allowed five pages returned two listings and was the
\* library's last page: the loop is over with the listings of both pages.
C13_Witness ==
    /\ LastPageHit
    /\ max_pages = 5 /\ calls = << 1, 2 >> /\ result_max_pages = << 2 >>
    /\ results[2] = 2
    /\ pc = "finish"
    /\ Len(all_ads) = Sum(results)

====
